---- MODULE Spec2Model ----
(***************************************************************************)
(* Model of android::GeolocationPermissions                                *)
(* (WebKit/android/WebCoreSupport/GeolocationPermissions.cpp).             *)
(*                                                                         *)
(* One GeolocationPermissions object exists per tab.  The statics          *)
(* s_permanentPermissions and s_instances are shared by all tabs.  Every   *)
(* method runs to completion on the WebCore thread, so each method is one  *)
(* action.  Calls out of the class (showPrompt, hidePrompt and the          *)
(* setIsAllowed calls made by maybeCallbackFrames) are recorded in the     *)
(* variables shown, hidden and notified, which hold the calls made by the  *)
(* last method that ran; lastOp names that method and its arguments.       *)
(***************************************************************************)
EXTENDS Integers, Sequences, FiniteSets, TLC

\* The tabs that may exist and the origin strings frames may have.
Tabs == {1, 2}
Origins == {"a", "b", "c"}

\* The origins of the documents loaded in a behaviour of Spec.
LoadedOrigins == {"a", "b"}

\* m_originInProgress is the empty string when no request is in progress.
NoOrigin == ""

\* WTF::notFound, the result of Vector::find for an absent element.
notFound == 0 - 1

\* Longest queue an object starts with under SpecObj.
MaxQueue == 2

\* Number of methods run in one behaviour of Spec.
MaxOps == 7

\* Number of methods run in one behaviour of SpecObj.
MaxObjOps == 3

VARIABLES
    s_instances,            \* Vector of the live objects, in construction order
    s_permanentPermissions, \* PermissionsMap: origin -> allow
    m_originInProgress,     \* per tab: String
    m_queuedOrigins,        \* per tab: Vector<String>
    m_temporaryPermissions, \* per tab: PermissionsMap
    m_callbackData,         \* per tab: [origin, allow]
    m_timerActive,          \* per tab: m_timer is scheduled
    shown,                  \* showPrompt calls of the last method: <<tab, origin>>
    hidden,                 \* hidePrompt calls of the last method: tab
    notified,               \* maybeCallbackFrames calls of the last method
    lastOp,                 \* the last method run and its arguments
    overwritten,            \* per tab: the pending m_callbackData replaced by the
                            \* latest makeAsynchronousCallbackToGeolocation call
                            \* or dropped by the latest reset
    alive,                  \* the objects constructed and not yet destroyed
    stale,                  \* per tab: origins whose prompt was shown before the
                            \* tab's last reset and is not answered yet
    forgotten,              \* <<tab, origin>>: the tab's remembered answer for the
                            \* origin was followed at once by clear(origin)
    opsLeft,                \* methods still to run in this behaviour
    origins                 \* the origins of the documents loaded in this behaviour

vars == <<s_instances, s_permanentPermissions, m_originInProgress,
          m_queuedOrigins, m_temporaryPermissions, m_callbackData,
          m_timerActive, shown, hidden, notified, lastOp, overwritten, alive, stale,
          forgotten, opsLeft, origins>>

----------------------------------------------------------------------------
\* HashMap<String, bool> as a function on the set of its keys.

EmptyMap == [o \in {} |-> FALSE]

MapContains(m, k) == k \in DOMAIN m

MapSet(m, k, v) == [o \in (DOMAIN m) \cup {k} |-> IF o = k THEN v ELSE m[o]]

MapRemove(m, k) == [o \in (DOMAIN m) \ {k} |-> m[o]]

\* Vector::find: index of the first occurrence (0-based), or notFound.
VectorFind(v, x) ==
    IF \E i \in 1..Len(v) : v[i] = x
    THEN (CHOOSE i \in 1..Len(v) : v[i] = x /\ \A j \in 1..(i - 1) : v[j] # x) - 1
    ELSE notFound

\* Vector::remove(index), index 0-based.
VectorRemove(v, index) ==
    SubSeq(v, 1, index) \o SubSeq(v, index + 2, Len(v))

SeqToSet(v) == {v[i] : i \in 1..Len(v)}

----------------------------------------------------------------------------
\* Values of the fields of a freshly constructed object.  m_callbackData is
\* written by makeAsynchronousCallbackToGeolocation before timerFired can
\* read it, so its initial content is never observed.
NoCallbackData == [origin |-> NoOrigin, allow |-> FALSE]

\* Every method run uses up one of the runs of the behaviour; the documents
\* loaded stay the same.
Tick == opsLeft > 0 /\ opsLeft' = opsLeft - 1 /\ origins' = origins

Op(name, t, o, allow, remember) ==
    [op |-> name, tab |-> t, origin |-> o, allow |-> allow, remember |-> remember]

NoOp == Op("none", 0, NoOrigin, FALSE, FALSE)

\* The objects cancelPendingRequestsInOtherTabs walks over.
Live == SeqToSet(s_instances)

\* One setIsAllowed fan-out made by maybeCallbackFrames in tab t.
Callback(t, o, allow) == [tab |-> t, origin |-> o, allow |-> allow]

Init ==
    /\ s_instances = <<1, 2>>
    /\ s_permanentPermissions = EmptyMap
    /\ m_originInProgress = [t \in Tabs |-> NoOrigin]
    /\ m_queuedOrigins = [t \in Tabs |-> <<>>]
    /\ m_temporaryPermissions = [t \in Tabs |-> EmptyMap]
    /\ m_callbackData = [t \in Tabs |-> NoCallbackData]
    /\ m_timerActive = [t \in Tabs |-> FALSE]
    /\ shown = {}
    /\ hidden = {}
    /\ notified = <<>>
    /\ lastOp = NoOp
    /\ overwritten = [t \in Tabs |-> NoCallbackData]
    /\ alive = Tabs
    /\ stale = [t \in Tabs |-> {}]
    /\ forgotten = {}
    /\ opsLeft = MaxOps
    /\ origins = LoadedOrigins

----------------------------------------------------------------------------
\* GeolocationPermissions::GeolocationPermissions
Construct(t) ==
    /\ Tick
    /\ t \notin alive
    /\ alive' = alive \cup {t}
    /\ s_instances' = Append(s_instances, t)
    /\ forgotten' = {}
    /\ shown' = {}
    /\ hidden' = {}
    /\ notified' = <<>>
    /\ lastOp' = Op("construct", t, NoOrigin, FALSE, FALSE)
    /\ UNCHANGED <<s_permanentPermissions, m_originInProgress, m_queuedOrigins,
                   m_temporaryPermissions, m_callbackData, m_timerActive,
                   overwritten, stale>>

\* The destructor without the s_instances.remove of line 58.
destructWithoutUnregistering(t) ==
    /\ Tick
    /\ t \in alive
    /\ alive' = alive \ {t}
    /\ stale' = [stale EXCEPT ![t] = {}]
    /\ forgotten' = {}
    /\ m_originInProgress' = [m_originInProgress EXCEPT ![t] = NoOrigin]
    /\ m_queuedOrigins' = [m_queuedOrigins EXCEPT ![t] = <<>>]
    /\ m_temporaryPermissions' = [m_temporaryPermissions EXCEPT ![t] = EmptyMap]
    /\ m_callbackData' = [m_callbackData EXCEPT ![t] = NoCallbackData]
    /\ m_timerActive' = [m_timerActive EXCEPT ![t] = FALSE]
    /\ shown' = {}
    /\ hidden' = {}
    /\ notified' = <<>>
    /\ lastOp' = Op("destruct", t, NoOrigin, FALSE, FALSE)
    /\ overwritten' = [overwritten EXCEPT ![t] = NoCallbackData]
    /\ UNCHANGED <<s_instances, s_permanentPermissions>>

\* GeolocationPermissions::~GeolocationPermissions.  The members are
\* destroyed with the object (the Timer member stops itself).
Destruct(t) ==
    /\ Tick
    /\ t \in alive
    /\ alive' = alive \ {t}
    /\ stale' = [stale EXCEPT ![t] = {}]
    /\ forgotten' = {}
    /\ s_instances' = VectorRemove(s_instances, VectorFind(s_instances, t))
    /\ m_originInProgress' = [m_originInProgress EXCEPT ![t] = NoOrigin]
    /\ m_queuedOrigins' = [m_queuedOrigins EXCEPT ![t] = <<>>]
    /\ m_temporaryPermissions' = [m_temporaryPermissions EXCEPT ![t] = EmptyMap]
    /\ m_callbackData' = [m_callbackData EXCEPT ![t] = NoCallbackData]
    /\ m_timerActive' = [m_timerActive EXCEPT ![t] = FALSE]
    /\ shown' = {}
    /\ hidden' = {}
    /\ notified' = <<>>
    /\ lastOp' = Op("destruct", t, NoOrigin, FALSE, FALSE)
    /\ overwritten' = [overwritten EXCEPT ![t] = NoCallbackData]
    /\ UNCHANGED s_permanentPermissions

----------------------------------------------------------------------------
\* queryPermissionState, lines 67-84: is there a record for the origin?
HasRecord(t, o) ==
    MapContains(m_temporaryPermissions[t], o) \/ MapContains(s_permanentPermissions, o)

\* RecordedAllow with the two lookups in the other order.
RecordedAllowPermanentFirst(t, o) ==
    IF MapContains(s_permanentPermissions, o)
    THEN s_permanentPermissions[o]
    ELSE m_temporaryPermissions[t][o]

\* queryPermissionState, lines 69-84: the recorded decision handed to
\* makeAsynchronousCallbackToGeolocation; the tab's temporary record is
\* looked up first.
RecordedAllow(t, o) ==
    IF MapContains(m_temporaryPermissions[t], o)
    THEN m_temporaryPermissions[t][o]
    ELSE s_permanentPermissions[o]

\* queryPermissionState, lines 99-100: the condition under which the origin
\* is appended to m_queuedOrigins.
ShouldQueue(inProgress, queued, o) ==
    (inProgress # o) /\ (VectorFind(queued, o) # notFound)

\* makeAsynchronousCallbackToGeolocation leaving a pending callback alone.
makeCallbackKeepingPending(t, o, allow) ==
    /\ m_callbackData' = [m_callbackData EXCEPT ![t] =
                              IF m_timerActive[t] THEN @ ELSE [origin |-> o, allow |-> allow]]
    /\ m_timerActive' = [m_timerActive EXCEPT ![t] = TRUE]
    /\ notified' = <<>>
    /\ overwritten' = [overwritten EXCEPT ![t] =
                           IF m_timerActive[t] THEN m_callbackData[t] ELSE NoCallbackData]

\* makeAsynchronousCallbackToGeolocation calling the frames back at once.
makeSynchronousCallback(t, o, allow) ==
    /\ notified' = <<Callback(t, o, allow)>>
    /\ UNCHANGED <<m_callbackData, m_timerActive, overwritten>>

\* makeAsynchronousCallbackToGeolocation: the single m_callbackData slot is
\* overwritten and the one-shot timer (re)started; no frame is called back.
makeAsynchronousCallbackToGeolocation(t, o, allow) ==
    /\ m_callbackData' = [m_callbackData EXCEPT ![t] = [origin |-> o, allow |-> allow]]
    /\ m_timerActive' = [m_timerActive EXCEPT ![t] = TRUE]
    /\ notified' = <<>>
    /\ overwritten' = [overwritten EXCEPT ![t] =
                           IF m_timerActive[t] THEN m_callbackData[t] ELSE NoCallbackData]

\* GeolocationPermissions::queryPermissionState for a frame of origin o.
queryPermissionState(t, o) ==
    /\ Tick
    /\ t \in alive
    /\ hidden' = {}
    /\ lastOp' = Op("query", t, o, FALSE, FALSE)
    /\ forgotten' = IF lastOp.op = "clear" /\ <<t, o>> \in forgotten THEN forgotten ELSE {}
    /\ UNCHANGED <<s_instances, s_permanentPermissions, m_temporaryPermissions,
                   alive, stale>>
    /\ IF HasRecord(t, o)
       THEN /\ makeAsynchronousCallbackToGeolocation(t, o, RecordedAllow(t, o))
            /\ shown' = {}
            /\ UNCHANGED <<m_originInProgress, m_queuedOrigins>>
       ELSE IF m_originInProgress[t] = NoOrigin
       THEN /\ m_originInProgress' = [m_originInProgress EXCEPT ![t] = o]
            /\ shown' = {<<t, o>>}
            /\ notified' = <<>>
            /\ UNCHANGED <<m_queuedOrigins, m_callbackData, m_timerActive, overwritten>>
       ELSE /\ m_queuedOrigins' =
                 IF ShouldQueue(m_originInProgress[t], m_queuedOrigins[t], o)
                 THEN [m_queuedOrigins EXCEPT ![t] = Append(@, o)]
                 ELSE m_queuedOrigins
            /\ shown' = {}
            /\ notified' = <<>>
            /\ UNCHANGED <<m_originInProgress, m_callbackData, m_timerActive, overwritten>>

\* GeolocationPermissions::timerFired: the one-shot timer has run out.
timerFired(t) ==
    /\ Tick
    /\ t \in alive
    /\ m_timerActive[t]
    /\ forgotten' = {}
    /\ m_timerActive' = [m_timerActive EXCEPT ![t] = FALSE]
    /\ notified' = <<Callback(t, m_callbackData[t].origin, m_callbackData[t].allow)>>
    /\ shown' = {}
    /\ hidden' = {}
    /\ lastOp' = Op("timer", t, NoOrigin, FALSE, FALSE)
    /\ UNCHANGED <<s_instances, s_permanentPermissions, m_originInProgress,
                   m_queuedOrigins, m_temporaryPermissions, m_callbackData,
                   overwritten, alive, stale>>

----------------------------------------------------------------------------
\* IsAnswerInProgress without the comparison of line 118.
AnyAnswerAccepted(t, origin) == TRUE

\* providePermissionState, line 118: is the answer for the request in
\* progress?
IsAnswerInProgress(t, origin) == origin = m_originInProgress[t]

\* recordPermissionState leaving the permanent map as it is.
RecordedPermanentNever(permanent, inProgress, origin, allow, remember) == permanent

\* recordPermissionState: the permanent map after the call.
RecordedPermanent(permanent, inProgress, origin, allow, remember) ==
    IF remember THEN MapSet(permanent, inProgress, allow) ELSE permanent

\* RecordedTemporary recording the temporary permission in both branches.
RecordedTemporaryAlways(temporary, inProgress, origin, allow, remember) ==
    MapSet(temporary, inProgress, allow)

\* recordPermissionState: the tab's temporary map after the call.
RecordedTemporary(temporary, inProgress, origin, allow, remember) ==
    IF remember
    THEN MapRemove(temporary, origin)
    ELSE MapSet(temporary, inProgress, allow)

\* cancelPendingRequests: the queue after the call.
CancelledQueue(queued, origin) ==
    IF VectorFind(queued, origin) # notFound
    THEN VectorRemove(queued, VectorFind(queued, origin))
    ELSE queued

\* cancelPendingRequests, line 168: what the ASSERT states about the
\* permanent map when the origin is found in the queue.
AssertedPermanent(queued, permanent, origin) ==
    VectorFind(queued, origin) # notFound => MapContains(permanent, origin)

\* cancelPendingRequests: the frames called back, with the decision read
\* from the permanent map.  Without an entry for the origin, iter->second
\* reads through the end iterator: the decision is then whatever bool is
\* read there.
CancelCallbacks(u, queued, permanent, origin, read) ==
    IF VectorFind(queued, origin) # notFound
    THEN <<Callback(u, origin,
                    IF MapContains(permanent, origin) THEN permanent[origin] ELSE read)>>
    ELSE <<>>

\* cancelPendingRequestsInOtherTabs: the callbacks made while walking
\* s_instances (the calling object included), in order.
RECURSIVE BroadcastCallbacks(_, _, _, _, _)
BroadcastCallbacks(instances, queues, permanent, origin, read) ==
    IF instances = <<>>
    THEN <<>>
    ELSE CancelCallbacks(Head(instances), queues[Head(instances)], permanent, origin, read)
         \o BroadcastCallbacks(Tail(instances), queues, permanent, origin, read)

\* cancelPendingRequestsInOtherTabs: every live object's queue after the walk.
BroadcastQueues(instances, queues, origin) ==
    [u \in DOMAIN queues |->
        IF u \in SeqToSet(instances) THEN CancelledQueue(queues[u], origin) ELSE queues[u]]

\* providePermissionState, lines 130-136: m_originInProgress when the method
\* returns, given the queue found at line 130.
OriginInProgressAfterProvide(queued) == NoOrigin

\* providePermissionState, lines 130-134: the queue after starting the next
\* request.
QueueAfterProvide(queued) == IF queued # <<>> THEN VectorRemove(queued, 0) ELSE queued

\* providePermissionState, lines 130-134: the prompt shown for the next
\* request.
ShownAfterProvide(t, queued) == IF queued # <<>> THEN {<<t, queued[1]>>} ELSE {}

\* GeolocationPermissions::providePermissionState
providePermissionState(t, origin, allow, remember) ==
    /\ Tick
    /\ t \in alive
    /\ hidden' = {}
    /\ lastOp' = Op("provide", t, origin, allow, remember)
    /\ stale' = [stale EXCEPT ![t] = @ \ {origin}]
    /\ forgotten' = {}
    /\ UNCHANGED <<s_instances, m_callbackData, m_timerActive, overwritten, alive>>
    /\ IF ~IsAnswerInProgress(t, origin)
       THEN /\ shown' = {}
            /\ notified' = <<>>
            /\ UNCHANGED <<s_permanentPermissions, m_originInProgress,
                           m_queuedOrigins, m_temporaryPermissions>>
       ELSE \E read \in BOOLEAN :
            LET inProgress == m_originInProgress[t]
                permanent == RecordedPermanent(s_permanentPermissions, inProgress,
                                               origin, allow, remember)
                temporary == RecordedTemporary(m_temporaryPermissions[t], inProgress,
                                               origin, allow, remember)
                queues == IF remember
                          THEN BroadcastQueues(s_instances, m_queuedOrigins, inProgress)
                          ELSE m_queuedOrigins
                cancelled == IF remember
                             THEN BroadcastCallbacks(s_instances, m_queuedOrigins,
                                                     permanent, inProgress, read)
                             ELSE <<>>
            IN  /\ s_permanentPermissions' = permanent
                /\ m_temporaryPermissions' =
                       [m_temporaryPermissions EXCEPT ![t] = temporary]
                /\ notified' = <<Callback(t, inProgress, allow)>> \o cancelled
                /\ m_queuedOrigins' = [queues EXCEPT ![t] = QueueAfterProvide(queues[t])]
                /\ shown' = ShownAfterProvide(t, queues[t])
                /\ m_originInProgress' =
                       [m_originInProgress EXCEPT ![t] = OriginInProgressAfterProvide(queues[t])]

\* resetTemporaryPermissionStates without the m_timer.stop() of line 190.
resetWithoutStoppingTimer(t) ==
    /\ Tick
    /\ t \in alive
    /\ m_originInProgress' = [m_originInProgress EXCEPT ![t] = NoOrigin]
    /\ m_queuedOrigins' = [m_queuedOrigins EXCEPT ![t] = <<>>]
    /\ m_temporaryPermissions' = [m_temporaryPermissions EXCEPT ![t] = EmptyMap]
    /\ hidden' = {t}
    /\ shown' = {}
    /\ notified' = <<>>
    /\ lastOp' = Op("reset", t, NoOrigin, FALSE, FALSE)
    /\ overwritten' = [overwritten EXCEPT ![t] =
                           IF m_timerActive[t] THEN m_callbackData[t] ELSE NoCallbackData]
    /\ stale' = [stale EXCEPT ![t] = @ \cup ({m_originInProgress[t]} \ {NoOrigin})]
    /\ forgotten' = {}
    /\ UNCHANGED <<alive, s_instances, s_permanentPermissions, m_callbackData,
                   m_timerActive>>

\* resetTemporaryPermissionStates clearing the permanent permissions too.
resetAllPermissionStates(t) ==
    /\ Tick
    /\ t \in alive
    /\ m_originInProgress' = [m_originInProgress EXCEPT ![t] = NoOrigin]
    /\ m_queuedOrigins' = [m_queuedOrigins EXCEPT ![t] = <<>>]
    /\ m_temporaryPermissions' = [m_temporaryPermissions EXCEPT ![t] = EmptyMap]
    /\ s_permanentPermissions' = EmptyMap
    /\ m_timerActive' = [m_timerActive EXCEPT ![t] = FALSE]
    /\ hidden' = {t}
    /\ shown' = {}
    /\ notified' = <<>>
    /\ lastOp' = Op("reset", t, NoOrigin, FALSE, FALSE)
    /\ overwritten' = [overwritten EXCEPT ![t] =
                           IF m_timerActive[t] THEN m_callbackData[t] ELSE NoCallbackData]
    /\ stale' = [stale EXCEPT ![t] = @ \cup ({m_originInProgress[t]} \ {NoOrigin})]
    /\ forgotten' = {}
    /\ UNCHANGED <<alive, s_instances, m_callbackData>>

\* GeolocationPermissions::resetTemporaryPermissionStates
resetTemporaryPermissionStates(t) ==
    /\ Tick
    /\ t \in alive
    /\ m_originInProgress' = [m_originInProgress EXCEPT ![t] = NoOrigin]
    /\ m_queuedOrigins' = [m_queuedOrigins EXCEPT ![t] = <<>>]
    /\ m_temporaryPermissions' = [m_temporaryPermissions EXCEPT ![t] = EmptyMap]
    /\ m_timerActive' = [m_timerActive EXCEPT ![t] = FALSE]
    /\ hidden' = {t}
    /\ shown' = {}
    /\ notified' = <<>>
    /\ lastOp' = Op("reset", t, NoOrigin, FALSE, FALSE)
    /\ overwritten' = [overwritten EXCEPT ![t] =
                           IF m_timerActive[t] THEN m_callbackData[t] ELSE NoCallbackData]
    /\ stale' = [stale EXCEPT ![t] = @ \cup ({m_originInProgress[t]} \ {NoOrigin})]
    /\ forgotten' = {}
    /\ UNCHANGED <<alive, s_instances, s_permanentPermissions, m_callbackData>>

----------------------------------------------------------------------------
\* The static methods on the permanent permissions.

\* GeolocationPermissions::getOrigins
getOrigins == DOMAIN s_permanentPermissions

\* GeolocationPermissions::getAllowed
getAllowed(origin) ==
    IF MapContains(s_permanentPermissions, origin)
    THEN s_permanentPermissions[origin]
    ELSE FALSE

\* clear removing every permanent permission.
clearEverything(origin) ==
    /\ Tick
    /\ s_permanentPermissions' = EmptyMap
    /\ shown' = {}
    /\ hidden' = {}
    /\ notified' = <<>>
    /\ lastOp' = Op("clear", 0, origin, FALSE, FALSE)
    /\ forgotten' = IF /\ lastOp.op = "provide"
                       /\ lastOp.remember
                       /\ lastOp.origin = origin
                       /\ notified # <<>>
                    THEN {<<lastOp.tab, origin>>}
                    ELSE {}
    /\ UNCHANGED <<s_instances, m_originInProgress, m_queuedOrigins,
                   m_temporaryPermissions, m_callbackData, m_timerActive,
                   overwritten, alive, stale>>

\* GeolocationPermissions::clear
clear(origin) ==
    /\ Tick
    /\ s_permanentPermissions' =
           IF MapContains(s_permanentPermissions, origin)
           THEN MapRemove(s_permanentPermissions, origin)
           ELSE s_permanentPermissions
    /\ shown' = {}
    /\ hidden' = {}
    /\ notified' = <<>>
    /\ lastOp' = Op("clear", 0, origin, FALSE, FALSE)
    /\ forgotten' = IF /\ lastOp.op = "provide"
                       /\ lastOp.remember
                       /\ lastOp.origin = origin
                       /\ notified # <<>>
                    THEN {<<lastOp.tab, origin>>}
                    ELSE {}
    /\ UNCHANGED <<s_instances, m_originInProgress, m_queuedOrigins,
                   m_temporaryPermissions, m_callbackData, m_timerActive,
                   overwritten, alive, stale>>

\* GeolocationPermissions::clearAll
clearAll ==
    /\ Tick
    /\ s_permanentPermissions' = EmptyMap
    /\ shown' = {}
    /\ hidden' = {}
    /\ notified' = <<>>
    /\ lastOp' = Op("clearAll", 0, NoOrigin, FALSE, FALSE)
    /\ forgotten' = {}
    /\ UNCHANGED <<s_instances, m_originInProgress, m_queuedOrigins,
                   m_temporaryPermissions, m_callbackData, m_timerActive,
                   overwritten, alive, stale>>

----------------------------------------------------------------------------
Next ==
    \/ \E t \in Tabs : Construct(t)
    \/ \E t \in Tabs : Destruct(t)
    \/ \E t \in Tabs, o \in origins : queryPermissionState(t, o)
    \/ \E t \in Tabs, o \in origins, allow \in BOOLEAN, remember \in BOOLEAN :
           providePermissionState(t, o, allow, remember)
    \/ \E t \in Tabs : timerFired(t)
    \/ \E t \in Tabs : resetTemporaryPermissionStates(t)
    \/ \E o \in origins : clear(o)
    \/ clearAll

Spec == Init /\ [][Next]_vars

----------------------------------------------------------------------------
\* queryPermissionState as written appends an origin only when the queue
\* already holds it, so no run from construction ever has a queued origin.
\* SpecObj runs the same methods on objects that already hold a request in
\* progress and queued origins: distinct origins, none of them the one in
\* progress, none with a recorded decision; origins the tab is not asking
\* about may have a permanent record.  One tab starts in such a state, the
\* other freshly constructed.  It is the specification for the statements
\* about what the methods do with a non-empty queue.

\* The tab that starts with requests outstanding: the one constructed last.
BusyTab == CHOOSE t \in Tabs : \A u \in Tabs : u <= t

\* Sequences of distinct elements of S of length at most n.
DistinctSeqs(S, n) ==
    {q \in UNION {[1..k -> S] : k \in 0..n} :
        \A i, j \in 1..Len(q) : i # j => q[i] # q[j]}

\* The (m_originInProgress, m_queuedOrigins) pairs an object may start with.
BusyStates ==
    {<<NoOrigin, <<>> >>}
    \cup {<<o, q>> : o \in Origins, q \in DistinctSeqs(Origins, MaxQueue)}

\* The maps from a subset of S to bool.
Maps(S) == UNION {[D -> BOOLEAN] : D \in SUBSET S}

InitObj ==
    /\ s_instances = <<1, 2>>
    /\ \E b \in {st \in BusyStates : st[1] \notin SeqToSet(st[2])} :
           /\ m_originInProgress = [t \in Tabs |-> IF t = BusyTab THEN b[1] ELSE NoOrigin]
           /\ m_queuedOrigins = [t \in Tabs |-> IF t = BusyTab THEN b[2] ELSE <<>>]
           /\ s_permanentPermissions \in Maps(Origins \ ({b[1]} \cup SeqToSet(b[2])))
    /\ m_temporaryPermissions = [t \in Tabs |-> EmptyMap]
    /\ m_callbackData = [t \in Tabs |-> NoCallbackData]
    /\ m_timerActive = [t \in Tabs |-> FALSE]
    /\ shown = {}
    /\ hidden = {}
    /\ notified = <<>>
    /\ lastOp = NoOp
    /\ overwritten = [t \in Tabs |-> NoCallbackData]
    /\ alive = Tabs
    /\ stale = [t \in Tabs |-> {}]
    /\ forgotten = {}
    /\ opsLeft = MaxObjOps
    /\ origins = Origins

SpecObj == InitObj /\ [][Next]_vars

----------------------------------------------------------------------------
\* The fields of tab t.
TabFields(t) ==
    <<m_originInProgress[t], m_queuedOrigins[t], m_temporaryPermissions[t],
      m_callbackData[t], m_timerActive[t]>>

\* C1: a query for an origin without a record, made while a different
\* origin is in progress in the tab, shows no prompt, leaves the request in
\* progress as it is and leaves the origin in the tab's queue.
C1_QueryWhileBusyQueues ==
    [][LET t == lastOp'.tab
           o == lastOp'.origin
       IN  (/\ lastOp'.op = "query"
            /\ m_originInProgress[t] # NoOrigin
            /\ m_originInProgress[t] # o
            /\ ~HasRecord(t, o))
           => /\ shown' = {}
              /\ m_originInProgress'[t] = m_originInProgress[t]
              /\ o \in SeqToSet(m_queuedOrigins'[t])]_vars

C3_CachePrecedence ==
    LET t == lastOp.tab
        o == lastOp.origin
    IN  (/\ lastOp.op = "query"
         /\ MapContains(m_temporaryPermissions[t], o)
         /\ MapContains(s_permanentPermissions, o))
        => /\ m_timerActive[t]
           /\ m_callbackData[t] = [origin |-> o, allow |-> m_temporaryPermissions[t][o]]
           /\ shown = {}

\* C3 witness: such a query where the two records disagree.
C3_Witness ==
    \E t \in Tabs, o \in Origins :
        /\ lastOp = Op("query", t, o, FALSE, FALSE)
        /\ MapContains(m_temporaryPermissions[t], o)
        /\ MapContains(s_permanentPermissions, o)
        /\ m_temporaryPermissions[t][o] # s_permanentPermissions[o]
        /\ m_timerActive[t]
        /\ m_callbackData[t].allow = m_temporaryPermissions[t][o]

C6_StaleAnswerDiscarded ==
    [][(lastOp'.op = "provide" /\ lastOp'.origin # m_originInProgress[lastOp'.tab])
       => /\ UNCHANGED <<s_instances, s_permanentPermissions, m_originInProgress,
                         m_queuedOrigins, m_temporaryPermissions, m_callbackData,
                         m_timerActive>>
          /\ shown' = {}
          /\ hidden' = {}
          /\ notified' = <<>>]_vars

\* C6 witness: an answer was discarded while a request for another origin
\* is in progress.
C6_Witness ==
    /\ lastOp.op = "provide"
    /\ m_originInProgress[lastOp.tab] # NoOrigin
    /\ m_originInProgress[lastOp.tab] # lastOp.origin
    /\ notified = <<>>
    /\ shown = {}

\* C7: a reset leaves the tab with no request in progress, an empty queue
\* and no temporary permissions, hides the prompt, and changes neither the
\* permanent permissions nor any other tab.
C7_ResetClearsTransientState ==
    [][LET t == lastOp'.tab
       IN  lastOp'.op = "reset"
           => /\ m_originInProgress'[t] = NoOrigin
              /\ m_queuedOrigins'[t] = <<>>
              /\ m_temporaryPermissions'[t] = EmptyMap
              /\ hidden' = {t}
              /\ shown' = {}
              /\ UNCHANGED <<s_permanentPermissions, s_instances>>
              /\ \A u \in Tabs \ {t} : TabFields(u)' = TabFields(u)]_vars

\* C7 witness: a tab that had answered a query from a record was reset
\* while permanent permissions exist and another tab has a request in
\* progress and temporary permissions.
C7_Witness ==
    \E t \in Tabs, u \in Tabs :
        /\ t # u
        /\ lastOp = Op("reset", t, NoOrigin, FALSE, FALSE)
        /\ hidden = {t}
        /\ m_callbackData[t].origin # NoOrigin
        /\ DOMAIN s_permanentPermissions # {}
        /\ m_originInProgress[u] # NoOrigin
        /\ DOMAIN m_temporaryPermissions[u] # {}

\* C8: an answer for the request in progress O with decision d is recorded
\* in the permanent permissions (and not in the tab's temporary ones) when
\* remembered, and in the tab's temporary permissions alone otherwise; the
\* tab's frames are called back with d, and with an empty queue no request
\* is in progress afterwards.
C8_AnswerRecorded ==
    [][LET t == lastOp'.tab
           o == lastOp'.origin
           d == lastOp'.allow
       IN  (lastOp'.op = "provide" /\ o = m_originInProgress[t])
           => /\ lastOp'.remember =>
                    /\ s_permanentPermissions' = MapSet(s_permanentPermissions, o, d)
                    /\ ~MapContains(m_temporaryPermissions'[t], o)
              /\ ~lastOp'.remember =>
                    /\ m_temporaryPermissions'[t] = MapSet(m_temporaryPermissions[t], o, d)
                    /\ s_permanentPermissions' = s_permanentPermissions
              /\ Len(notified') >= 1
              /\ notified'[1] = Callback(t, o, d)
              /\ m_queuedOrigins[t] = <<>> => m_originInProgress'[t] = NoOrigin]_vars

\* C8 witness: a remembered answer was accepted and is on permanent record.
C8_Witness ==
    \E t \in Tabs, o \in Origins, d \in BOOLEAN :
        /\ lastOp = Op("provide", t, o, d, TRUE)
        /\ notified = <<Callback(t, o, d)>>
        /\ MapContains(s_permanentPermissions, o)
        /\ s_permanentPermissions[o] = d
        /\ ~MapContains(m_temporaryPermissions[t], o)
        /\ m_originInProgress[t] = NoOrigin

\* C9: a query answered from a record replaces whatever callback is pending
\* and leaves one timer running; nothing else changes a pending callback;
\* and when the timer fires, the frames are called back once, with the
\* pending callback, so a callback that was replaced is never delivered.
C9_SingleSlotDelivery ==
    [][LET t == lastOp'.tab
           o == lastOp'.origin
       IN  /\ (lastOp'.op = "query" /\ HasRecord(t, o))
               => /\ m_callbackData'[t] = [origin |-> o, allow |-> RecordedAllow(t, o)]
                  /\ m_timerActive'[t]
           /\ \A u \in Tabs :
                  (m_timerActive[u] /\ m_timerActive'[u]
                     /\ ~(lastOp'.op = "query" /\ u = t))
                  => m_callbackData'[u] = m_callbackData[u]
           /\ lastOp'.op = "timer"
               => /\ m_timerActive[t]
                  /\ ~m_timerActive'[t]
                  /\ notified' = <<Callback(t, m_callbackData[t].origin,
                                            m_callbackData[t].allow)>>]_vars

\* C9 witness: the timer fired after a second query had replaced the
\* callback of a first one for another origin, and delivered the second.
C9_Witness ==
    \E t \in Tabs :
        /\ lastOp = Op("timer", t, NoOrigin, FALSE, FALSE)
        /\ overwritten[t] # NoCallbackData
        /\ overwritten[t].origin # m_callbackData[t].origin
        /\ notified = <<Callback(t, m_callbackData[t].origin, m_callbackData[t].allow)>>

\* C10: queryPermissionState never calls frames back itself; for an origin
\* with a record it changes only the pending callback and the timer; the
\* frames are called back by the later timerFired or by an answer.
C10_CachedDecisionDeferred ==
    [][LET t == lastOp'.tab
           o == lastOp'.origin
       IN  /\ lastOp'.op = "query"
               => /\ notified' = <<>>
                  /\ HasRecord(t, o) =>
                        /\ m_timerActive'[t]
                        /\ m_callbackData'[t].origin = o
                        /\ shown' = {}
                        /\ UNCHANGED <<m_originInProgress, m_queuedOrigins,
                                       m_temporaryPermissions, s_permanentPermissions>>
           /\ notified' # <<>> => lastOp'.op \in {"timer", "provide"}]_vars

\* C10 witness: a query was answered from a record, the callback is pending
\* and no frame has been called back.
C10_Witness ==
    \E t \in Tabs, o \in Origins :
        /\ lastOp = Op("query", t, o, FALSE, FALSE)
        /\ HasRecord(t, o)
        /\ m_timerActive[t]
        /\ m_callbackData[t].origin = o
        /\ notified = <<>>

\* C11: a reset leaves the tab's timer stopped, so the callback that was
\* pending is not delivered: the timer is started again only by a later
\* query answered from a record, with that query's origin, and frames are
\* called back by the timer only while it is running.
C11_ResetCancelsDelivery ==
    [][LET t == lastOp'.tab
       IN  /\ lastOp'.op = "reset" => ~m_timerActive'[t]
           /\ \A u \in Tabs :
                  (~m_timerActive[u] /\ m_timerActive'[u])
                  => /\ lastOp'.op = "query"
                     /\ u = t
                     /\ m_callbackData'[u].origin = lastOp'.origin
           /\ (notified' # <<>> /\ lastOp'.op # "provide")
               => (lastOp'.op = "timer" /\ m_timerActive[t])]_vars

\* C11 witness: a tab was reset while a callback was pending; the timer is
\* stopped and no frame was called back.
C11_Witness ==
    \E t \in Tabs :
        /\ lastOp = Op("reset", t, NoOrigin, FALSE, FALSE)
        /\ overwritten[t] # NoCallbackData
        /\ overwritten[t] = m_callbackData[t]
        /\ ~m_timerActive[t]
        /\ notified = <<>>

C14_CancelFindsPermanentRecord ==
    [][LET t == lastOp'.tab
           o == lastOp'.origin
       IN  (lastOp'.op = "provide" /\ lastOp'.remember /\ o = m_originInProgress[t])
           => \A i \in 1..Len(s_instances) :
                  /\ AssertedPermanent(m_queuedOrigins[s_instances[i]],
                                       s_permanentPermissions', o)
                  /\ VectorFind(m_queuedOrigins[s_instances[i]], o) # notFound
                     => \E k \in 1..Len(notified') :
                            notified'[k] = Callback(s_instances[i], o,
                                                    s_permanentPermissions'[o])]_vars

\* C14 witness: a remembered answer in one tab has cancelled the request
\* queued in another tab, whose frames were called back with the decision
\* on permanent record.
C14_Witness ==
    \E t \in Tabs, u \in Tabs, o \in Origins, d \in BOOLEAN :
        /\ t # u
        /\ lastOp = Op("provide", t, o, d, TRUE)
        /\ Len(notified) = 2
        /\ notified[1] = Callback(t, o, d)
        /\ notified[2] = Callback(u, o, d)
        /\ MapContains(s_permanentPermissions, o)
        /\ s_permanentPermissions[o] = d

C16_ClearingPermanentRecords ==
    [][/\ \A o \in Origins :
              lastOp' = Op("clear", 0, o, FALSE, FALSE)
              => /\ ~MapContains(s_permanentPermissions, o)
                    => s_permanentPermissions' = s_permanentPermissions
                 /\ MapContains(s_permanentPermissions, o)
                    => /\ getOrigins' = getOrigins \ {o}
                       /\ \A k \in getOrigins' :
                              s_permanentPermissions'[k] = s_permanentPermissions[k]
                 /\ getAllowed(o)' = FALSE
       /\ lastOp'.op = "clearAll" => getOrigins' = {}
       /\ lastOp'.op \in {"clear", "clearAll"}
          => UNCHANGED <<m_originInProgress, m_queuedOrigins, m_temporaryPermissions,
                         s_instances>>]_vars

\* C16 witness: clear(O) was called for an origin remembered just before,
\* while another origin keeps its permanent record and a tab has a request
\* in progress.
C16_Witness ==
    \E t \in Tabs, o \in Origins :
        /\ lastOp = Op("clear", 0, o, FALSE, FALSE)
        /\ forgotten # {}
        /\ ~MapContains(s_permanentPermissions, o)
        /\ getOrigins # {}
        /\ m_originInProgress[t] # NoOrigin

\* C17: s_instances holds the objects constructed and not yet destroyed,
\* each once; it changes only in the constructor and the destructor; and
\* frames are called back only in such objects, a destroyed object being
\* left alone.
C17_RegistryHoldsLiveObjects ==
    [][/\ SeqToSet(s_instances) = alive
       /\ SeqToSet(s_instances') = alive'
       /\ Len(s_instances') = Cardinality(alive')
       /\ s_instances' # s_instances => lastOp'.op \in {"construct", "destruct"}
       /\ lastOp'.op = "construct" => s_instances' = Append(s_instances, lastOp'.tab)
       /\ \A k \in 1..Len(notified') : notified'[k].tab \in alive'
       /\ \A u \in Tabs \ (alive \cup alive') : TabFields(u)' = TabFields(u)]_vars

\* C17 witness: a tab was destroyed and constructed again, so that it is
\* now registered after the tab that was constructed after it.
C17_Witness ==
    \E t \in Tabs, u \in Tabs :
        /\ t < u
        /\ lastOp = Op("construct", t, NoOrigin, FALSE, FALSE)
        /\ s_instances = <<u, t>>
        /\ alive = {t, u}

\* C18: when a tab's remembered answer for an origin is followed by
\* clear(origin), the origin has neither a permanent record nor a temporary
\* record in the tab, and the tab, which has no request in progress, shows
\* a prompt for the origin when it is queried next.
C18_ClearedDecisionPromptsAgain ==
    [][\A t \in Tabs, o \in Origins :
         /\ (lastOp'.op = "clear" /\ <<t, o>> \in forgotten')
            => /\ ~HasRecord(t, o)'
               /\ m_originInProgress'[t] = NoOrigin
         /\ (lastOp' = Op("query", t, o, FALSE, FALSE) /\ <<t, o>> \in forgotten')
            => /\ shown' = {<<t, o>>}
               /\ m_originInProgress'[t] = o
               /\ notified' = <<>>
               /\ m_timerActive'[t] = m_timerActive[t]]_vars

\* C18 witness: the query that followed the remembered answer and the
\* clear has shown the prompt again.
C18_Witness ==
    \E t \in Tabs, o \in Origins :
        /\ lastOp = Op("query", t, o, FALSE, FALSE)
        /\ <<t, o>> \in forgotten
        /\ shown = {<<t, o>>}
        /\ m_originInProgress[t] = o
        /\ ~MapContains(s_permanentPermissions, o)

\* C19: an answer to a prompt that was shown before the tab's last reset
\* records no decision, changes no request and calls no frame back, also
\* when the origin was queried and prompted again after the reset.
C19_LateAnswerIgnored ==
    [][LET t == lastOp'.tab
           o == lastOp'.origin
       IN  (lastOp'.op = "provide" /\ o \in stale[t])
           => /\ UNCHANGED <<s_permanentPermissions, m_temporaryPermissions,
                             m_originInProgress, m_queuedOrigins>>
              /\ notified' = <<>>
              /\ shown' = {}]_vars

\* C20: a queried origin does not disappear: when queryPermissionState has
\* returned, the origin is the tab's request in progress (its prompt
\* shown), or is in the tab's queue, or has its callback pending on the
\* timer.
C20_QueriedOriginStaysTracked ==
    LET t == lastOp.tab
        o == lastOp.origin
    IN  lastOp.op = "query"
        => \/ m_originInProgress[t] = o
           \/ VectorFind(m_queuedOrigins[t], o) # notFound
           \/ (m_timerActive[t] /\ m_callbackData[t].origin = o)

====
